---- MODULE Spec2Model ----
(***************************************************************************)
(* Model of the OAI 5G UDR operator: the reconciliation controller of      *)
(* src/src/charm.py and the fiveg-udr relation library of                  *)
(* src/lib/charms/oai_5g_udr/v0/fiveg_udr.py (provider and requirer side). *)
(***************************************************************************)
EXTENDS Integers, Sequences, FiniteSets, TLC

(* ---------------------------------------------------------------- bounds *)

\* Number of fiveg-udr relation ids the platform may hand out.
MaxRel == 2

\* Cap on the number of udr_available notifications counted on the requirer.
MaxEmit == 3

RelIds == 1..MaxRel

(* ------------------------------------------------------------- constants *)

UdrKeys == {"udr_ipv4_address", "udr_fqdn", "udr_port", "udr_api_version"}

DbKeys == {"username", "password", "endpoints"}

\* Values a relation partition may hold under a key (the platform stores no
\* empty value: setting a key to "" removes it).
Values == {"a", "b"}

EmptyBag == [k \in {} |-> ""]

BASE_CONFIG_PATH == "/openair-udr/etc"

CONFIG_FILE_NAME == "udr.conf"

ConfigPath == "/openair-udr/etc/udr.conf"

ServiceName == "udr"

ConfigNudrInterfacePort == "80"

ConfigNudrInterfaceApiVersion == "v1"

\* f"{self.model.app.name}.{self.model.name}.svc.cluster.local"
UdrFqdn == "oai-5g-udr.whatever.svc.cluster.local"

\* The endpoint record the charm publishes about itself.
OwnRecord ==
    [udr_ipv4_address |-> "127.0.0.1",
     udr_fqdn |-> UdrFqdn,
     udr_port |-> ConfigNudrInterfacePort,
     udr_api_version |-> ConfigNudrInterfaceApiVersion]

\* Mutant: the service is declared without automatic startup.
PebbleLayerDisabled ==
    [udr |-> [override |-> "replace",
              summary |-> "udr",
              command |-> "/bin/bash /openair-udr/bin/entrypoint.sh /openair-udr/bin/oai_udr -c /openair-udr/etc/udr.conf -o",
              startup |-> "disabled"]]

PebbleLayer ==
    [udr |-> [override |-> "replace",
              summary |-> "udr",
              command |-> "/bin/bash /openair-udr/bin/entrypoint.sh /openair-udr/bin/oai_udr -c /openair-udr/etc/udr.conf -o",
              startup |-> "enabled"]]

EmptyPlan == [s \in {} |-> ""]

(* ---------------------------------------------------------------- status *)

StatusUnknown == [name |-> "unknown", message |-> ""]

ActiveStatus == [name |-> "active", message |-> ""]

WaitingStatus(m) == [name |-> "waiting", message |-> m]

BlockedStatus(m) == [name |-> "blocked", message |-> m]

MsgPebble == "Waiting for Pebble in workload container"

MsgDbRelation == "Waiting for relation to database to be created"

MsgNrfRelation == "Waiting for relation to NRF to be created"

MsgDbData == "Waiting for database relation data to be available"

MsgNrfAddress == "Waiting for NRF IPv4 address to be available in relation data"

(* ----------------------------------------------------------------- state *)

VARIABLES
    canConnect,   \* the workload container's Pebble can be reached
    isLeader,     \* this unit is the leader replica
    dbRel,        \* a database relation exists
    dbKeys,       \* keys the database application wrote to it
    nrfRel,       \* a fiveg-nrf relation exists
    nrfAddr,      \* nrf_requires.nrf_ipv4_address_available
    configFile,   \* the rendered artifact exists at ConfigPath
    plan,         \* the Pebble plan: service name -> service declaration
    svc,          \* state of the udr service: "absent", "inactive", "active"
    udrRels,      \* ids of the fiveg-udr relation instances that exist
    udrData,      \* [RelIds -> bag]: local application partition per instance
    status,       \* unit status
    nextRel,      \* the id the next fiveg-udr relation instance gets
    deferred,     \* events deferred and waiting for redelivery
    last,         \* what the handler run by the latest step did
    reqRel,       \* requirer side: a relation instance exists for the name
    reqApp,       \* requirer side: the relation has a remote application
    reqData,      \* requirer side: the remote application partition
    emitted,      \* requirer side: number of udr_available notifications
    reqLast,      \* requirer side: what the handler run by the latest step did
    query,        \* requirer side: what the accessors read by the latest step gave
    endpoints,    \* rendering: two values of the database relation's endpoints
    artifact      \* rendering: what _push_config wrote for each of the two

charmVars ==
    <<canConnect, isLeader, dbRel, dbKeys, nrfRel, nrfAddr, configFile, plan,
      svc, udrRels, udrData, nextRel, status, deferred, last>>

reqVars == <<reqRel, reqApp, reqData, emitted, reqLast, query>>

renderVars == <<endpoints, artifact>>

vars == <<charmVars, reqVars, renderVars>>

NoPass ==
    [handler |-> "none", kind |-> "none", rel |-> 0, deferred |-> FALSE,
     raised |-> "none", effects |-> <<>>, again |-> FALSE]

NoReq == [handler |-> "none", emits |-> 0, payload |-> EmptyBag, again |-> FALSE]

NoQuery == [read |-> FALSE, value |-> EmptyBag, available |-> EmptyBag]

NoEndpoints == [a |-> <<>>, b |-> <<>>]

NoArtifact == [pushed |-> {}, a |-> <<>>, b |-> <<>>]

\* The state after construction, but for the inputs of the rendering.
InitOperator ==
    /\ canConnect = FALSE
    /\ isLeader = FALSE
    /\ dbRel = FALSE
    /\ dbKeys = {}
    /\ nrfRel = FALSE
    /\ nrfAddr = FALSE
    /\ configFile = FALSE
    /\ plan = EmptyPlan
    /\ svc = "absent"
    /\ udrRels = {}
    /\ udrData = [r \in RelIds |-> EmptyBag]
    /\ nextRel = 1
    /\ status = StatusUnknown
    /\ deferred = {}
    /\ last = NoPass
    /\ reqRel = FALSE
    /\ reqApp = FALSE
    /\ reqData = EmptyBag
    /\ emitted = 0
    /\ reqLast = NoReq
    /\ query = NoQuery

Init ==
    /\ InitOperator
    /\ endpoints = NoEndpoints
    /\ artifact = NoArtifact

(* ------------------------------------------- library: FiveGUDRProvides *)

\* model.get_relation(name, relation_id=rid).  For an id no instance has, the
\* platform library gives either None or, when it keeps the relation as a
\* dead one (dead), a relation object with that id and no live instance
\* behind it.  truthy is what `if not relation` tests; id is 0 for None.
GetRelation(rels, rid, dead) ==
    IF rid \in rels THEN [truthy |-> TRUE, id |-> rid, active |-> TRUE]
    ELSE IF dead THEN [truthy |-> TRUE, id |-> rid, active |-> FALSE]
    ELSE [truthy |-> FALSE, id |-> 0, active |-> FALSE]

\* dict.update: the keys of rec are set, the other keys of bag are kept.
Update(bag, rec) ==
    [k \in (DOMAIN bag) \cup (DOMAIN rec) |->
        IF k \in DOMAIN rec THEN rec[k] ELSE bag[k]]

\* Mutant: the update leaves out the api version.
SetUdrInformationNoVersion(data, rels, rec, rid, dead, leader) ==
    LET relation == GetRelation(rels, rid, dead) IN
    IF ~relation.truthy
    THEN [raised |-> "RuntimeError", data |-> data]
    ELSE IF ~leader
    THEN [raised |-> "RelationDataError", data |-> data]
    ELSE IF ~relation.active
    THEN [raised |-> "ModelError", data |-> data]
    ELSE [raised |-> "none",
          data |-> [data EXCEPT ![relation.id] =
                      Update(data[relation.id],
                             [k \in DOMAIN rec \ {"udr_api_version"} |-> rec[k]])]]

\* Mutant: the write goes to every instance instead of the one named.
SetUdrInformationBroadcast(data, rels, rec, rid, dead, leader) ==
    LET relation == GetRelation(rels, rid, dead) IN
    IF ~relation.truthy
    THEN [raised |-> "RuntimeError", data |-> data]
    ELSE IF ~leader
    THEN [raised |-> "RelationDataError", data |-> data]
    ELSE IF ~relation.active
    THEN [raised |-> "ModelError", data |-> data]
    ELSE [raised |-> "none",
          data |-> [r \in DOMAIN data |->
                       IF r \in rels THEN Update(data[r], rec) ELSE data[r]]]

\* Mutant: a missing instance is skipped silently instead of raising.
SetUdrInformationNoCheck(data, rels, rec, rid, dead, leader) ==
    LET relation == GetRelation(rels, rid, dead) IN
    IF ~relation.truthy
    THEN [raised |-> "none", data |-> data]
    ELSE IF ~leader
    THEN [raised |-> "RelationDataError", data |-> data]
    ELSE IF ~relation.active
    THEN [raised |-> "none", data |-> data]
    ELSE [raised |-> "none",
          data |-> [data EXCEPT ![relation.id] = Update(data[relation.id], rec)]]

\* FiveGUDRProvides.set_udr_information: raises RuntimeError when
\* get_relation gives None.  The update of the application partition is
\* checked by the platform in this order: a non-leader's write is refused
\* (RelationDataError, a kind of ModelError) before the write is tried, and
\* the write to a dead relation then fails (ModelError).  Otherwise the local
\* application partition of that instance alone is updated.
SetUdrInformation(data, rels, rec, rid, dead, leader) ==
    LET relation == GetRelation(rels, rid, dead) IN
    IF ~relation.truthy
    THEN [raised |-> "RuntimeError", data |-> data]
    ELSE IF ~leader
    THEN [raised |-> "RelationDataError", data |-> data]
    ELSE IF ~relation.active
    THEN [raised |-> "ModelError", data |-> data]
    ELSE [raised |-> "none",
          data |-> [data EXCEPT ![relation.id] = Update(data[relation.id], rec)]]

\* The methods class FiveGUDRProvides defines besides __init__.
ProvidesMethods == {"set_udr_information"}

(* ----------------------------------------------------- charm: properties *)

\* _relation_created: model.get_relation(name) is truthy.
RelationCreated(rel) == rel

\* _database_relation_data_is_available
DatabaseRelationDataIsAvailable(rel, keys) ==
    IF ~rel THEN FALSE
    ELSE IF "username" \notin keys THEN FALSE
    ELSE IF "password" \notin keys THEN FALSE
    ELSE IF "endpoints" \notin keys THEN FALSE
    ELSE TRUE

\* Mutant: the is_running check is left out.
UdrServiceStartedNoRunningCheck(cc, service) ==
    IF ~cc THEN FALSE
    ELSE IF service = "absent" THEN FALSE
    ELSE TRUE

\* _udr_service_started: get_service raises ModelError for an unknown service.
UdrServiceStarted(cc, service) ==
    IF ~cc THEN FALSE
    ELSE IF service = "absent" THEN FALSE
    ELSE IF service # "active" THEN FALSE
    ELSE TRUE

\* _set_udr_information_for_all_relations calls
\* udr_provides.set_udr_information_for_all_relations, which FiveGUDRProvides
\* does not define: the attribute lookup raises and nothing is written.
SetUdrInformationForAllRelations(data, rels) ==
    IF "set_udr_information_for_all_relations" \in ProvidesMethods
    THEN [raised |-> "none",
          data |-> [r \in RelIds |->
                       IF r \in rels THEN Update(data[r], OwnRecord) ELSE data[r]]]
    ELSE [raised |-> "AttributeError", data |-> data]

\* container.add_layer(name, layer, combine=True) with override=replace.
AddLayer(p, layer) ==
    [s \in (DOMAIN p) \cup (DOMAIN layer) |->
        IF s \in DOMAIN layer THEN layer[s] ELSE p[s]]

(* ------------------------------------------------ charm: reconciliation *)

\* Mutant: the NRF address is not checked.
FirstFailingGateNoAddressCheck(cc, dbr, nrfr, dbk, nrfa) ==
    IF ~cc THEN "pebble"
    ELSE IF ~RelationCreated(dbr) THEN "database_relation"
    ELSE IF ~RelationCreated(nrfr) THEN "nrf_relation"
    ELSE IF ~DatabaseRelationDataIsAvailable(dbr, dbk) THEN "database_data"
    ELSE "none"

\* Mutant: the NRF relation is checked before the database relation.
FirstFailingGateNrfFirst(cc, dbr, nrfr, dbk, nrfa) ==
    IF ~cc THEN "pebble"
    ELSE IF ~RelationCreated(nrfr) THEN "nrf_relation"
    ELSE IF ~RelationCreated(dbr) THEN "database_relation"
    ELSE IF ~DatabaseRelationDataIsAvailable(dbr, dbk) THEN "database_data"
    ELSE IF ~nrfa THEN "nrf_address"
    ELSE "none"

\* The precondition chain of _on_config_changed: the first check that fails.
FirstFailingGate(cc, dbr, nrfr, dbk, nrfa) ==
    IF ~cc THEN "pebble"
    ELSE IF ~RelationCreated(dbr) THEN "database_relation"
    ELSE IF ~RelationCreated(nrfr) THEN "nrf_relation"
    ELSE IF ~DatabaseRelationDataIsAvailable(dbr, dbk) THEN "database_data"
    ELSE IF ~nrfa THEN "nrf_address"
    ELSE "none"

\* Mutant: the event is also deferred while the database data is missing.
GateOutcomeDeferOnData(gate) ==
    CASE gate = "pebble" ->
            [status |-> WaitingStatus(MsgPebble), defer |-> TRUE]
      [] gate = "database_relation" ->
            [status |-> BlockedStatus(MsgDbRelation), defer |-> FALSE]
      [] gate = "nrf_relation" ->
            [status |-> BlockedStatus(MsgNrfRelation), defer |-> FALSE]
      [] gate = "database_data" ->
            [status |-> WaitingStatus(MsgDbData), defer |-> TRUE]
      [] gate = "nrf_address" ->
            [status |-> WaitingStatus(MsgNrfAddress), defer |-> FALSE]

\* Mutant: the event is not deferred when Pebble cannot be reached.
GateOutcomeNoDefer(gate) ==
    CASE gate = "pebble" ->
            [status |-> WaitingStatus(MsgPebble), defer |-> FALSE]
      [] gate = "database_relation" ->
            [status |-> BlockedStatus(MsgDbRelation), defer |-> FALSE]
      [] gate = "nrf_relation" ->
            [status |-> BlockedStatus(MsgNrfRelation), defer |-> FALSE]
      [] gate = "database_data" ->
            [status |-> WaitingStatus(MsgDbData), defer |-> FALSE]
      [] gate = "nrf_address" ->
            [status |-> WaitingStatus(MsgNrfAddress), defer |-> FALSE]

\* What _on_config_changed does when a check fails: status, and defer or not.
GateOutcome(gate) ==
    CASE gate = "pebble" ->
            [status |-> WaitingStatus(MsgPebble), defer |-> TRUE]
      [] gate = "database_relation" ->
            [status |-> BlockedStatus(MsgDbRelation), defer |-> FALSE]
      [] gate = "nrf_relation" ->
            [status |-> BlockedStatus(MsgNrfRelation), defer |-> FALSE]
      [] gate = "database_data" ->
            [status |-> WaitingStatus(MsgDbData), defer |-> FALSE]
      [] gate = "nrf_address" ->
            [status |-> WaitingStatus(MsgNrfAddress), defer |-> FALSE]

\* Lines 117-118: the leader publishes to all relations, the others do not.
PublishOnReconcile(leader, data, rels) ==
    IF leader
    THEN SetUdrInformationForAllRelations(data, rels)
    ELSE [raised |-> "none", data |-> data]

\* The number of times the rendered artifact is written in a pass's effects.
Pushes(effects) == Cardinality({i \in DOMAIN effects : effects[i] = "push"})

\* Mutant: the status is set to Active before the leader publishes.
OnConfigChangedStatusFirst(e) ==
    LET gate == FirstFailingGate(canConnect, dbRel, nrfRel, dbKeys, nrfAddr) IN
    IF gate # "none"
    THEN /\ status' = GateOutcome(gate).status
         /\ last' = [handler |-> "_on_config_changed", kind |-> e.kind,
                     rel |-> e.rel, deferred |-> GateOutcome(gate).defer,
                     raised |-> "none", effects |-> <<"status">>,
                     again |-> (last.handler = "_on_config_changed"
                                /\ last.kind = e.kind)]
         /\ UNCHANGED <<configFile, plan, svc, udrData>>
    ELSE LET pub == PublishOnReconcile(isLeader, udrData, udrRels) IN
         /\ configFile' = TRUE
         /\ plan' = AddLayer(plan, PebbleLayer)
         /\ svc' = "active"
         /\ udrData' = pub.data
         /\ status' = ActiveStatus
         /\ last' = [handler |-> "_on_config_changed", kind |-> e.kind,
                     rel |-> e.rel, deferred |-> FALSE, raised |-> pub.raised,
                     effects |-> <<"push", "add_layer", "replan", "restart",
                                   "status">>
                                 \o (IF isLeader THEN <<"publish_all">> ELSE <<>>),
                     again |-> (last.handler = "_on_config_changed"
                                /\ last.kind = e.kind)]

\* Mutant: the artifact is written only while it is not in the container yet.
OnConfigChangedPushOnce(e) ==
    LET gate == FirstFailingGate(canConnect, dbRel, nrfRel, dbKeys, nrfAddr) IN
    IF gate # "none"
    THEN /\ status' = GateOutcome(gate).status
         /\ last' = [handler |-> "_on_config_changed", kind |-> e.kind,
                     rel |-> e.rel, deferred |-> GateOutcome(gate).defer,
                     raised |-> "none", effects |-> <<"status">>,
                     again |-> (last.handler = "_on_config_changed"
                                /\ last.kind = e.kind)]
         /\ UNCHANGED <<configFile, plan, svc, udrData>>
    ELSE LET pub == PublishOnReconcile(isLeader, udrData, udrRels) IN
         /\ configFile' = TRUE
         /\ plan' = AddLayer(plan, PebbleLayer)
         /\ svc' = "active"
         /\ udrData' = pub.data
         /\ status' = IF pub.raised = "none" THEN ActiveStatus ELSE status
         /\ last' = [handler |-> "_on_config_changed", kind |-> e.kind,
                     rel |-> e.rel, deferred |-> FALSE, raised |-> pub.raised,
                     effects |-> (IF configFile THEN <<>> ELSE <<"push">>)
                                 \o <<"add_layer", "replan", "restart">>
                                 \o (IF isLeader THEN <<"publish_all">> ELSE <<>>)
                                 \o (IF pub.raised = "none"
                                     THEN <<"status">> ELSE <<>>),
                     again |-> (last.handler = "_on_config_changed"
                                /\ last.kind = e.kind)]

\* _on_config_changed, for the event e; `deferred` is left to the dispatcher.
\* last.again records that the step before was a pass for the same kind of
\* event (nothing changed between the two).
OnConfigChanged(e) ==
    LET gate == FirstFailingGate(canConnect, dbRel, nrfRel, dbKeys, nrfAddr) IN
    IF gate # "none"
    THEN /\ status' = GateOutcome(gate).status
         /\ last' = [handler |-> "_on_config_changed", kind |-> e.kind,
                     rel |-> e.rel, deferred |-> GateOutcome(gate).defer,
                     raised |-> "none", effects |-> <<"status">>,
                     again |-> (last.handler = "_on_config_changed"
                                /\ last.kind = e.kind)]
         /\ UNCHANGED <<configFile, plan, svc, udrData>>
    ELSE LET pub == PublishOnReconcile(isLeader, udrData, udrRels) IN
         /\ configFile' = TRUE
         /\ plan' = AddLayer(plan, PebbleLayer)
         /\ svc' = "active"
         /\ udrData' = pub.data
         /\ status' = IF pub.raised = "none" THEN ActiveStatus ELSE status
         /\ last' = [handler |-> "_on_config_changed", kind |-> e.kind,
                     rel |-> e.rel, deferred |-> FALSE, raised |-> pub.raised,
                     effects |-> <<"push", "add_layer", "replan", "restart">>
                                 \o (IF isLeader THEN <<"publish_all">> ELSE <<>>)
                                 \o (IF pub.raised = "none"
                                     THEN <<"status">> ELSE <<>>),
                     again |-> (last.handler = "_on_config_changed"
                                /\ last.kind = e.kind)]

(* -------------------------------------------------- charm: join handler *)

\* Mutant: the leadership check is left out.
JoinedResultNoLeaderCheck(leader, started, data, rels, rid, dead) ==
    IF ~started
    THEN [defer |-> TRUE, raised |-> "none", data |-> data, effects |-> <<>>]
    ELSE LET pub == SetUdrInformation(data, rels, OwnRecord, rid, dead, leader) IN
         [defer |-> FALSE, raised |-> pub.raised, data |-> pub.data,
          effects |-> <<"publish">>]

\* The body of _on_fiveg_udr_relation_joined for the instance rid.
JoinedResult(leader, started, data, rels, rid, dead) ==
    IF ~leader
    THEN [defer |-> FALSE, raised |-> "none", data |-> data, effects |-> <<>>]
    ELSE IF ~started
    THEN [defer |-> TRUE, raised |-> "none", data |-> data, effects |-> <<>>]
    ELSE LET pub == SetUdrInformation(data, rels, OwnRecord, rid, dead, leader) IN
         [defer |-> FALSE, raised |-> pub.raised, data |-> pub.data,
          effects |-> <<"publish">>]

\* _on_fiveg_udr_relation_joined, for the event e of instance e.rel, run on
\* the relation instances rels; dead is what the platform library does with
\* the id of a removed instance.
OnFivegUdrRelationJoined(e, rels) ==
    \E dead \in BOOLEAN :
    LET res == JoinedResult(isLeader, UdrServiceStarted(canConnect, svc),
                            udrData, rels, e.rel, dead) IN
    /\ udrData' = res.data
    /\ last' = [handler |-> "_on_fiveg_udr_relation_joined", kind |-> e.kind,
                rel |-> e.rel, deferred |-> res.defer, raised |-> res.raised,
                effects |-> res.effects, again |-> FALSE]
    /\ UNCHANGED <<configFile, plan, svc, status>>

(* ------------------------------------------------------ event dispatch *)

Event(kind, rel) == [kind |-> kind, rel |-> rel]

envVars == <<canConnect, isLeader, dbRel, dbKeys, nrfRel, nrfAddr>>

\* __init__, lines 61-66: the handler each observed event is bound to.
HandlerOf(kind) ==
    IF kind = "fiveg_udr_relation_joined"
    THEN "_on_fiveg_udr_relation_joined"
    ELSE "_on_config_changed"

\* The notice kept for a deferred event: the handler to call again and the
\* relation instance the event is about (0 for none).
Notice(e) == [handler |-> HandlerOf(e.kind), rel |-> e.rel]

Handle(e, rels) ==
    IF HandlerOf(e.kind) = "_on_fiveg_udr_relation_joined"
    THEN OnFivegUdrRelationJoined(e, rels)
    ELSE OnConfigChanged(e)

\* A new event is delivered: its notice joins the deferred ones if its
\* handler deferred it.
Emit(e, rels) ==
    /\ Handle(e, rels)
    /\ deferred' = IF last'.deferred THEN deferred \cup {Notice(e)} ELSE deferred
    /\ UNCHANGED <<envVars, reqVars, renderVars>>

ConfigChanged ==
    /\ Emit(Event("config_changed", 0), udrRels)
    /\ UNCHANGED <<udrRels, nextRel>>

NrfRelationChanged ==
    /\ nrfRel
    /\ Emit(Event("fiveg_nrf_relation_changed", 0), udrRels)
    /\ UNCHANGED <<udrRels, nextRel>>

DatabaseCreated ==
    /\ dbRel
    /\ Emit(Event("database_created", 0), udrRels)
    /\ UNCHANGED <<udrRels, nextRel>>

\* A remote unit joins a new fiveg-udr relation instance, which gets the
\* next id (the platform never reuses an id).
UdrRelationCreatedAndJoined ==
    /\ nextRel <= MaxRel
    /\ udrRels' = udrRels \cup {nextRel}
    /\ nextRel' = nextRel + 1
    /\ Emit(Event("fiveg_udr_relation_joined", nextRel), udrRels')

\* A further remote unit joins the existing instance r.
UdrRelationJoined(r) ==
    /\ r \in udrRels
    /\ Emit(Event("fiveg_udr_relation_joined", r), udrRels)
    /\ UNCHANGED <<udrRels, nextRel>>

\* A deferred event is delivered again to its handler; its notice stays if
\* the handler defers it again or does not return.
Redeliver(n) ==
    /\ n \in deferred
    /\ Handle([kind |-> IF n.handler = "_on_config_changed"
                        THEN "deferred" ELSE "fiveg_udr_relation_joined",
               rel |-> n.rel], udrRels)
    /\ deferred' = IF last'.deferred \/ last'.raised # "none"
                   THEN deferred ELSE deferred \ {n}
    /\ UNCHANGED <<envVars, reqVars, renderVars, udrRels, nextRel>>

(* --------------------------------------------------------- environment *)

PebbleReady ==
    /\ ~canConnect
    /\ canConnect' = TRUE
    /\ last' = NoPass
    /\ UNCHANGED <<isLeader, dbRel, dbKeys, nrfRel, nrfAddr, configFile, plan,
                   svc, udrRels, udrData, nextRel, status, deferred, reqVars,
                   renderVars>>

ContainerLost ==
    /\ canConnect
    /\ canConnect' = FALSE
    /\ last' = NoPass
    /\ UNCHANGED <<isLeader, dbRel, dbKeys, nrfRel, nrfAddr, configFile, plan,
                   svc, udrRels, udrData, nextRel, status, deferred, reqVars,
                   renderVars>>

ServiceStopped ==
    /\ svc = "active"
    /\ svc' = "inactive"
    /\ last' = NoPass
    /\ UNCHANGED <<envVars, configFile, plan, udrRels, udrData, nextRel,
                   status, deferred, reqVars, renderVars>>

LeaderElected ==
    /\ ~isLeader
    /\ isLeader' = TRUE
    /\ last' = NoPass
    /\ UNCHANGED <<canConnect, dbRel, dbKeys, nrfRel, nrfAddr, configFile, plan,
                   svc, udrRels, udrData, nextRel, status, deferred, reqVars,
                   renderVars>>

LeaderRevoked ==
    /\ isLeader
    /\ isLeader' = FALSE
    /\ last' = NoPass
    /\ UNCHANGED <<canConnect, dbRel, dbKeys, nrfRel, nrfAddr, configFile, plan,
                   svc, udrRels, udrData, nextRel, status, deferred, reqVars,
                   renderVars>>

DatabaseRelationCreated ==
    /\ ~dbRel
    /\ dbRel' = TRUE
    /\ dbKeys' = {}
    /\ last' = NoPass
    /\ UNCHANGED <<canConnect, isLeader, nrfRel, nrfAddr, configFile, plan,
                   svc, udrRels, udrData, nextRel, status, deferred, reqVars,
                   renderVars>>

DatabaseRelationBroken ==
    /\ dbRel
    /\ dbRel' = FALSE
    /\ dbKeys' = {}
    /\ last' = NoPass
    /\ UNCHANGED <<canConnect, isLeader, nrfRel, nrfAddr, configFile, plan,
                   svc, udrRels, udrData, nextRel, status, deferred, reqVars,
                   renderVars>>

DatabaseDataWritten(k) ==
    /\ dbRel
    /\ k \notin dbKeys
    /\ dbKeys' = dbKeys \cup {k}
    /\ last' = NoPass
    /\ UNCHANGED <<canConnect, isLeader, dbRel, nrfRel, nrfAddr, configFile,
                   plan, svc, udrRels, udrData, nextRel, status, deferred,
                   reqVars, renderVars>>

NrfRelationCreated ==
    /\ ~nrfRel
    /\ nrfRel' = TRUE
    /\ nrfAddr' = FALSE
    /\ last' = NoPass
    /\ UNCHANGED <<canConnect, isLeader, dbRel, dbKeys, configFile, plan,
                   svc, udrRels, udrData, nextRel, status, deferred, reqVars,
                   renderVars>>

NrfRelationBroken ==
    /\ nrfRel
    /\ nrfRel' = FALSE
    /\ nrfAddr' = FALSE
    /\ last' = NoPass
    /\ UNCHANGED <<canConnect, isLeader, dbRel, dbKeys, configFile, plan,
                   svc, udrRels, udrData, nextRel, status, deferred, reqVars,
                   renderVars>>

NrfAddressWritten ==
    /\ nrfRel
    /\ ~nrfAddr
    /\ nrfAddr' = TRUE
    /\ last' = NoPass
    /\ UNCHANGED <<canConnect, isLeader, dbRel, dbKeys, nrfRel, configFile,
                   plan, svc, udrRels, udrData, nextRel, status, deferred,
                   reqVars, renderVars>>

UdrRelationBroken(r) ==
    /\ r \in udrRels
    /\ udrRels' = udrRels \ {r}
    /\ udrData' = [udrData EXCEPT ![r] = EmptyBag]
    /\ last' = NoPass
    /\ UNCHANGED <<envVars, configFile, plan, svc, nextRel, status, deferred,
                   reqVars, renderVars>>

Notices ==
    {[handler |-> "_on_config_changed", rel |-> 0]}
    \cup {[handler |-> "_on_fiveg_udr_relation_joined", rel |-> r] : r \in RelIds}

Next ==
    \/ ConfigChanged
    \/ NrfRelationChanged
    \/ DatabaseCreated
    \/ UdrRelationCreatedAndJoined
    \/ \E r \in RelIds : UdrRelationJoined(r)
    \/ \E n \in Notices : Redeliver(n)
    \/ PebbleReady
    \/ ContainerLost
    \/ ServiceStopped
    \/ LeaderElected
    \/ LeaderRevoked
    \/ DatabaseRelationCreated
    \/ DatabaseRelationBroken
    \/ \E k \in DbKeys : DatabaseDataWritten(k)
    \/ NrfRelationCreated
    \/ NrfRelationBroken
    \/ NrfAddressWritten
    \/ \E r \in RelIds : UdrRelationBroken(r)

Spec == Init /\ [][Next]_vars

(* ------------------------------------- library: provider API, called *)

\* The endpoint records a caller of the library publishes.
Records == {OwnRecord} \cup {[k \in UdrKeys |-> v] : v \in Values}

\* A fiveg-udr relation instance is created (no event handler involved).
ProviderRelationCreated ==
    /\ nextRel <= MaxRel
    /\ udrRels' = udrRels \cup {nextRel}
    /\ nextRel' = nextRel + 1
    /\ last' = NoPass
    /\ UNCHANGED <<envVars, configFile, plan, svc, udrData, status, deferred,
                   reqVars, renderVars>>

\* A charm calls udr_provides.set_udr_information(rec, relation_id=rid).
CallSetUdrInformation(rec, rid, dead) ==
    LET pub == SetUdrInformation(udrData, udrRels, rec, rid, dead, isLeader) IN
    /\ udrData' = pub.data
    /\ last' = [handler |-> "set_udr_information", kind |-> "call", rel |-> rid,
                deferred |-> FALSE, raised |-> pub.raised,
                effects |-> <<"publish">>, again |-> FALSE]
    /\ UNCHANGED <<envVars, configFile, plan, svc, udrRels, nextRel, status,
                   deferred, reqVars, renderVars>>

NextProvides ==
    \/ ProviderRelationCreated
    \/ \E r \in RelIds : UdrRelationBroken(r)
    \/ LeaderElected
    \/ LeaderRevoked
    \/ \E rec \in Records, rid \in RelIds, dead \in BOOLEAN :
          CallSetUdrInformation(rec, rid, dead)

SpecProvides == Init /\ [][NextProvides]_vars

(* ------------------------------------------- library: FiveGUDRRequires *)

\* Mutant: the payload's port is read from the api version key.
OnRelationChangedResultSwapped(app, bag) ==
    IF ~app \/ ~(UdrKeys \subseteq DOMAIN bag)
    THEN [emit |-> FALSE, payload |-> EmptyBag]
    ELSE [emit |-> TRUE,
          payload |-> [udr_ipv4_address |-> bag["udr_ipv4_address"],
                       udr_fqdn |-> bag["udr_fqdn"],
                       udr_port |-> bag["udr_api_version"],
                       udr_api_version |-> bag["udr_api_version"]]]

\* Mutant: the api version is not required and is read with a default.
OnRelationChangedResultOptionalVersion(app, bag) ==
    IF ~app \/ ~((UdrKeys \ {"udr_api_version"}) \subseteq DOMAIN bag)
    THEN [emit |-> FALSE, payload |-> EmptyBag]
    ELSE [emit |-> TRUE,
          payload |-> [udr_ipv4_address |-> bag["udr_ipv4_address"],
                       udr_fqdn |-> bag["udr_fqdn"],
                       udr_port |-> bag["udr_port"],
                       udr_api_version |->
                           IF "udr_api_version" \in DOMAIN bag
                           THEN bag["udr_api_version"] ELSE ""]]

\* Mutant: one key present is enough to emit (or instead of and).
OnRelationChangedResultAnyKey(app, bag) ==
    IF ~app \/ (DOMAIN bag) \cap UdrKeys = {}
    THEN [emit |-> FALSE, payload |-> EmptyBag]
    ELSE [emit |-> TRUE,
          payload |-> [k \in UdrKeys |->
                          IF k \in DOMAIN bag THEN bag[k] ELSE ""]]

\* FiveGUDRRequires._on_relation_changed on a relation whose remote
\* application is present (app) with partition bag: whether udr_available is
\* emitted, and with which payload.
OnRelationChangedResult(app, bag) ==
    IF ~app THEN [emit |-> FALSE, payload |-> EmptyBag]
    ELSE IF "udr_ipv4_address" \notin DOMAIN bag
    THEN [emit |-> FALSE, payload |-> EmptyBag]
    ELSE IF "udr_fqdn" \notin DOMAIN bag
    THEN [emit |-> FALSE, payload |-> EmptyBag]
    ELSE IF "udr_port" \notin DOMAIN bag
    THEN [emit |-> FALSE, payload |-> EmptyBag]
    ELSE IF "udr_api_version" \notin DOMAIN bag
    THEN [emit |-> FALSE, payload |-> EmptyBag]
    ELSE [emit |-> TRUE,
          payload |-> [udr_ipv4_address |-> bag["udr_ipv4_address"],
                       udr_fqdn |-> bag["udr_fqdn"],
                       udr_port |-> bag["udr_port"],
                       udr_api_version |-> bag["udr_api_version"]]]

\* A relation-changed event of the relation is delivered to the Observer.
RelationChanged ==
    LET res == OnRelationChangedResult(reqApp, reqData) IN
    /\ reqRel
    /\ emitted < MaxEmit
    /\ emitted' = IF res.emit THEN emitted + 1 ELSE emitted
    /\ reqLast' = [handler |-> "_on_relation_changed",
                   emits |-> IF res.emit THEN 1 ELSE 0,
                   payload |-> res.payload,
                   again |-> reqLast.handler = "_on_relation_changed"]
    /\ query' = NoQuery
    /\ UNCHANGED <<reqRel, reqApp, reqData, charmVars, renderVars>>

\* A relation instance is established for the Observer's relation name.
RequirerRelationCreated ==
    /\ ~reqRel
    /\ reqRel' = TRUE
    /\ reqApp' = FALSE
    /\ reqData' = EmptyBag
    /\ reqLast' = NoReq
    /\ query' = NoQuery
    /\ UNCHANGED <<emitted, charmVars, renderVars>>

\* The relation instance is removed.
RequirerRelationBroken ==
    /\ reqRel
    /\ reqRel' = FALSE
    /\ reqApp' = FALSE
    /\ reqData' = EmptyBag
    /\ reqLast' = NoReq
    /\ query' = NoQuery
    /\ UNCHANGED <<emitted, charmVars, renderVars>>

\* The remote application appears on the relation.
RemoteAppJoined ==
    /\ reqRel
    /\ ~reqApp
    /\ reqApp' = TRUE
    /\ reqData' = EmptyBag
    /\ reqLast' = NoReq
    /\ query' = NoQuery
    /\ UNCHANGED <<reqRel, emitted, charmVars, renderVars>>

\* The remote application is gone from the relation.
RemoteAppDeparted ==
    /\ reqApp
    /\ reqApp' = FALSE
    /\ reqData' = EmptyBag
    /\ reqLast' = NoReq
    /\ query' = NoQuery
    /\ UNCHANGED <<reqRel, emitted, charmVars, renderVars>>

\* The remote application sets k to v in its partition; setting it to ""
\* removes the key.
RemoteKeySet(k, v) ==
    /\ reqApp
    /\ reqData' = IF v = ""
                  THEN [x \in (DOMAIN reqData) \ {k} |-> reqData[x]]
                  ELSE Update(reqData, [x \in {k} |-> v])
    /\ reqData' # reqData
    /\ reqLast' = NoReq
    /\ query' = NoQuery
    /\ UNCHANGED <<reqRel, reqApp, emitted, charmVars, renderVars>>

\* The remote application's partition no longer holds k.
RemoteKeyRemoved(k) ==
    /\ reqApp
    /\ k \in DOMAIN reqData
    /\ reqData' = [x \in (DOMAIN reqData) \ {k} |-> reqData[x]]
    /\ reqLast' = NoReq
    /\ query' = NoQuery
    /\ UNCHANGED <<reqRel, reqApp, emitted, charmVars, renderVars>>

(* ------------------------------- library: FiveGUDRRequires accessors *)

\* What an accessor gives when it returns None.
Absent == [raised |-> "none", present |-> FALSE, value |-> ""]

\* The accessors udr_ipv4_address, udr_fqdn, udr_port, udr_api_version, for
\* their key: model.get_relation gives None when no instance exists (rel) and
\* relation.data is then read off None; relation.data.get(relation.app) is
\* None without a remote application (app); an empty or missing partition
\* gives None, and otherwise the value under the key, or None.
UdrField(rel, app, bag, key) ==
    IF ~rel THEN [raised |-> "AttributeError", present |-> FALSE, value |-> ""]
    ELSE IF ~app \/ DOMAIN bag = {} THEN Absent
    ELSE IF key \in DOMAIN bag
    THEN [raised |-> "none", present |-> TRUE, value |-> bag[key]]
    ELSE Absent

\* Mutant: udr_port_available tests the fqdn accessor (a copied line).
UdrFieldAvailableCopiedKey(rel, app, bag, key) ==
    LET v == UdrField(rel, app, bag,
                      IF key = "udr_port" THEN "udr_fqdn" ELSE key) IN
    IF v.raised # "none" THEN [raised |-> v.raised, result |-> FALSE]
    ELSE [raised |-> "none", result |-> v.present /\ v.value # ""]

\* The predicates udr_*_available: `if self.udr_*: True else False`, the
\* truth value of what the accessor returns (an error of the accessor
\* propagates).
UdrFieldAvailable(rel, app, bag, key) ==
    LET v == UdrField(rel, app, bag, key) IN
    IF v.raised # "none" THEN [raised |-> v.raised, result |-> FALSE]
    ELSE [raised |-> "none", result |-> v.present /\ v.value # ""]

\* A charm reads the four accessors and the four availability predicates.
ReadAccessors ==
    /\ query' = [read |-> TRUE,
                 value |-> [k \in UdrKeys |->
                               UdrField(reqRel, reqApp, reqData, k)],
                 available |-> [k \in UdrKeys |->
                               UdrFieldAvailable(reqRel, reqApp, reqData, k)]]
    /\ UNCHANGED <<reqRel, reqApp, reqData, emitted, reqLast, charmVars, renderVars>>

NextRequires ==
    \/ RelationChanged
    \/ RequirerRelationCreated
    \/ RequirerRelationBroken
    \/ RemoteAppJoined
    \/ RemoteAppDeparted
    \/ \E k \in UdrKeys, v \in Values \cup {""} : RemoteKeySet(k, v)
    \/ \E k \in UdrKeys : RemoteKeyRemoved(k)
    \/ ReadAccessors

SpecRequires == Init /\ [][NextRequires]_vars

(* ------------------------------- library: provider to requirer round trip *)

\* The provider's local application partition of instance r is the remote
\* application partition the Observer on r reads.  A relation-changed event
\* of r is delivered to the Observer, which then sees what the provider holds
\* (the Observer stands for the peer of whichever instance delivers).
RelationChangedDelivered(r) ==
    LET res == OnRelationChangedResult(reqApp, udrData[r]) IN
    /\ r \in udrRels
    /\ reqRel
    /\ reqApp
    /\ emitted < MaxEmit
    /\ reqData' = udrData[r]
    /\ emitted' = IF res.emit THEN emitted + 1 ELSE emitted
    /\ reqLast' = [handler |-> "_on_relation_changed",
                   emits |-> IF res.emit THEN 1 ELSE 0,
                   payload |-> res.payload,
                   again |-> reqLast.handler = "_on_relation_changed"]
    /\ query' = NoQuery
    /\ last' = [handler |-> "relation_changed_delivered",
                kind |-> "relation_changed", rel |-> r, deferred |-> FALSE,
                raised |-> "none", effects |-> <<>>, again |-> FALSE]
    /\ UNCHANGED <<reqRel, reqApp, envVars, configFile, plan, svc, udrRels,
                   udrData, nextRel, status, deferred, renderVars>>

NextRoundTrip ==
    \/ LeaderElected
    \/ LeaderRevoked
    \/ ProviderRelationCreated
    \/ \E r \in RelIds : UdrRelationBroken(r)
    \/ \E rec \in Records, rid \in RelIds, dead \in BOOLEAN :
          CallSetUdrInformation(rec, rid, dead)
    \/ RequirerRelationCreated
    \/ RemoteAppJoined
    \/ \E r \in RelIds : RelationChangedDelivered(r)
    \/ ReadAccessors

SpecRoundTrip == Init /\ [][NextRoundTrip]_vars

(* --------------------------------------------- charm: rendered artifact *)

\* A text is a sequence of one-character strings.
MaxLen == 4

Alphabet == {"h", ":", ","}

Texts == UNION {[1..n -> Alphabet] : n \in 0..MaxLen}

\* Python's str.split(sep) for a one-character separator: the pieces between
\* the occurrences of sep, empty pieces included.
RECURSIVE Split(_, _)
Split(s, sep) ==
    IF \A i \in DOMAIN s : s[i] # sep
    THEN <<s>>
    ELSE LET i == CHOOSE i \in DOMAIN s :
                      s[i] = sep /\ \A j \in 1..(i - 1) : s[j] # sep
         IN <<SubSeq(s, 1, i - 1)>> \o Split(SubSeq(s, i + 1, Len(s)), sep)

\* Mutant: the first entry is used whole, its port included.
DatabaseRelationServerWithPort(rel, eps) ==
    IF ~rel THEN [raised |-> "ValueError", value |-> <<>>]
    ELSE [raised |-> "none", value |-> Split(eps, ",")[1]]

\* _database_relation_server: ValueError without a database relation, and
\* otherwise endpoints.split(",")[0].split(":")[0].
DatabaseRelationServer(rel, eps) ==
    IF ~rel THEN [raised |-> "ValueError", value |-> <<>>]
    ELSE [raised |-> "none", value |-> Split(Split(eps, ",")[1], ":")[1]]

DATABASE_NAME == "oai_db"

\* The template's MYSQL block, each value between double quotes.
RenderTemplate(ctx) ==
    [MYSQL_SERVER |-> <<"\"">> \o ctx.mysql_server \o <<"\"">>,
     MYSQL_USER   |-> <<"\"", ctx.mysql_user, "\"">>,
     MYSQL_PASS   |-> <<"\"", ctx.mysql_password, "\"">>,
     MYSQL_DB     |-> <<"\"", ctx.mysql_database, "\"">>]

\* The content _push_config renders from the database relation data
\* {username, password, endpoints}; nothing is rendered when an argument
\* raises.
PushConfigContent(rel, username, password, eps) ==
    LET server == DatabaseRelationServer(rel, eps) IN
    IF server.raised # "none"
    THEN [raised |-> server.raised, content |-> <<>>]
    ELSE [raised |-> "none",
          content |-> RenderTemplate([mysql_server   |-> server.value,
                                      mysql_user     |-> username,
                                      mysql_password |-> password,
                                      mysql_database |-> DATABASE_NAME])]

\* The database relation's two endpoints values.
Runs == {"a", "b"}

\* A configuration-changed event handled while the database relation holds
\* username "u", password "p" and the endpoints value of the run: the whole of
\* _on_config_changed, with the content its _push_config wrote recorded for
\* the run.
ConfigChangedRendering(run) ==
    LET e == Event("config_changed", 0)
        out == PushConfigContent(dbRel, "u", "p", endpoints[run])
    IN /\ run \notin artifact.pushed
       /\ Handle(e, udrRels)
       /\ deferred' = IF last'.deferred
                      THEN deferred \cup {Notice(e)} ELSE deferred
       /\ artifact' = IF Pushes(last'.effects) = 1 /\ out.raised = "none"
                      THEN [artifact EXCEPT ![run] = out.content,
                                            !.pushed = @ \cup {run}]
                      ELSE artifact
       /\ UNCHANGED <<envVars, reqVars, endpoints, udrRels, nextRel>>

\* The unit with its container reachable and the database and NRF relations
\* complete, before any event is handled; the two endpoints values are the
\* inputs.
InitRender ==
    /\ canConnect = TRUE
    /\ isLeader = FALSE
    /\ dbRel = TRUE
    /\ dbKeys = DbKeys
    /\ nrfRel = TRUE
    /\ nrfAddr = TRUE
    /\ configFile = FALSE
    /\ plan = EmptyPlan
    /\ svc = "absent"
    /\ udrRels = {}
    /\ udrData = [r \in RelIds |-> EmptyBag]
    /\ nextRel = 1
    /\ status = StatusUnknown
    /\ deferred = {}
    /\ last = NoPass
    /\ reqRel = FALSE
    /\ reqApp = FALSE
    /\ reqData = EmptyBag
    /\ emitted = 0
    /\ reqLast = NoReq
    /\ query = NoQuery
    /\ endpoints \in [a : Texts, b : Texts]
    /\ artifact = NoArtifact

NextRender == \E run \in Runs : ConfigChangedRendering(run)

SpecRender == InitRender /\ [][NextRender]_vars

(* ================================================================= *)
(* Properties                                                          *)
(* ================================================================= *)

ConfigNotice == [handler |-> "_on_config_changed", rel |-> 0]

JoinNotice(r) == [handler |-> "_on_fiveg_udr_relation_joined", rel |-> r]

\* The five preconditions of the reconciliation pass, as the claims word them.
AllPreconditions ==
    /\ canConnect
    /\ dbRel
    /\ nrfRel
    /\ DbKeys \subseteq dbKeys
    /\ nrfAddr

\* The bag holds the charm's full endpoint record under the four udr_* keys.
HoldsOwnRecord(bag) ==
    /\ UdrKeys \subseteq DOMAIN bag
    /\ \A k \in UdrKeys : bag[k] = OwnRecord[k]

\* C1: after one pass of _on_config_changed that finds a precondition unmet,
\* the unit status is the status of the first failing check in the order
\* runtime, database relation, NRF relation, database data, NRF address.
C1_FirstFailingCheckDecidesStatus ==
    last.handler = "_on_config_changed" =>
        /\ ~canConnect => status = WaitingStatus(MsgPebble)
        /\ (canConnect /\ ~dbRel) => status = BlockedStatus(MsgDbRelation)
        /\ (canConnect /\ dbRel /\ ~nrfRel) =>
               status = BlockedStatus(MsgNrfRelation)
        /\ (canConnect /\ dbRel /\ nrfRel /\ ~(DbKeys \subseteq dbKeys)) =>
               status = WaitingStatus(MsgDbData)
        /\ (canConnect /\ dbRel /\ nrfRel /\ DbKeys \subseteq dbKeys /\ ~nrfAddr) =>
               status = WaitingStatus(MsgNrfAddress)

\* C1 witness: a pass with the runtime reachable and neither relation
\* established ended Blocked on the database, not on the NRF.
C1_Witness ==
    /\ last.handler = "_on_config_changed"
    /\ canConnect /\ ~dbRel /\ ~nrfRel
    /\ status = BlockedStatus(MsgDbRelation)

\* C2 (as claimed): a reconciliation pass that runs with all five
\* preconditions satisfied completes and leaves the status Active, on the
\* leader as well as on a non-leader.
C2_PassEndsActive ==
    (last.handler = "_on_config_changed" /\ AllPreconditions) =>
        (last.raised = "none" /\ status = ActiveStatus)

\* C3 (as claimed): after a pass with all preconditions satisfied on the
\* leader, every joined fiveg-udr instance holds the full endpoint record.
C3_LeaderPassPublishesToAll ==
    (last.handler = "_on_config_changed" /\ AllPreconditions /\ isLeader) =>
        \A r \in udrRels : HoldsOwnRecord(udrData[r])

\* C4: a pass of _on_config_changed run while the runtime is unreachable
\* sets the status Waiting (Pebble) and defers the event, whatever the
\* relations and leadership are.
C4_UnreachableRuntimeDefers ==
    (last.handler = "_on_config_changed" /\ ~canConnect) =>
        /\ status = WaitingStatus(MsgPebble)
        /\ last.deferred
        /\ ConfigNotice \in deferred

\* C4 witness: the leader, with both relations complete, deferred the event.
C4_Witness ==
    /\ last.handler = "_on_config_changed"
    /\ ~canConnect /\ isLeader /\ dbRel /\ nrfRel /\ nrfAddr
    /\ DbKeys \subseteq dbKeys
    /\ last.deferred
    /\ ConfigNotice \in deferred

\* C5: when the leader handles a fiveg-udr relation-joined event while the
\* workload is not confirmed running (runtime unreachable, service unknown or
\* service not running), the event is deferred and no fiveg-udr relation data
\* changes.
C5_JoinBeforeServiceRunsDefers ==
    [][(/\ last'.handler = "_on_fiveg_udr_relation_joined"
        /\ isLeader'
        /\ (~canConnect' \/ svc' = "absent" \/ svc' = "inactive"))
       => (/\ last'.deferred
           /\ JoinNotice(last'.rel) \in deferred'
           /\ udrData' = udrData)]_vars

\* C5 witness: the leader deferred a join while the service was known to
\* Pebble but not running.
C5_Witness ==
    /\ last.handler = "_on_fiveg_udr_relation_joined"
    /\ isLeader /\ canConnect /\ svc = "inactive"
    /\ last.deferred
    /\ JoinNotice(last.rel) \in deferred

\* C6: when the leader handles the join event of an existing instance r while
\* the service is running, the four udr_* keys are written to instance r and
\* the data of every other instance is unchanged.
C6_JoinWritesOnlyJoinedInstance ==
    [][(/\ last'.handler = "_on_fiveg_udr_relation_joined"
        /\ isLeader'
        /\ canConnect' /\ svc' = "active"
        /\ last'.rel \in udrRels')
       => (/\ HoldsOwnRecord(udrData'[last'.rel])
           /\ last'.raised = "none"
           /\ ~last'.deferred
           /\ \A q \in RelIds \ {last'.rel} : udrData'[q] = udrData[q])]_vars

\* C6 witness: instance 2 was written by its join while instance 1, which
\* exists, still holds nothing.
C6_Witness ==
    /\ last.handler = "_on_fiveg_udr_relation_joined"
    /\ isLeader /\ canConnect /\ svc = "active"
    /\ last.rel = 2
    /\ udrRels = {1, 2}
    /\ HoldsOwnRecord(udrData[2])
    /\ udrData[1] = EmptyBag

\* C7: on a non-leader no handler run (config-changed, NRF relation-changed,
\* database-created, relation-joined, or a redelivery) changes the local
\* application partition of any fiveg-udr instance: none calls a publish
\* method, so none is refused by the platform either.
C7_NonLeaderNeverWrites ==
    [][(~isLeader /\ last'.handler # "none")
       => (/\ udrData' = udrData
           /\ last'.raised = "none"
           /\ \A i \in DOMAIN last'.effects :
                 last'.effects[i] \notin {"publish", "publish_all"})]_vars

\* C7 witness: a non-leader handled a join with the service running and the
\* joined instance holds nothing.
C7_Witness ==
    /\ last.handler = "_on_fiveg_udr_relation_joined"
    /\ ~isLeader /\ canConnect /\ svc = "active"
    /\ last.rel \in udrRels
    /\ udrData[last.rel] = EmptyBag

\* C8: set_udr_information called with a relation id no instance has raises
\* and writes nothing, for a leader and for a non-leader.
C8_PublishToMissingRelationFails ==
    [][(last'.handler = "set_udr_information" /\ last'.rel \notin udrRels)
       => (last'.raised \in {"RuntimeError", "RelationDataError", "ModelError"}
           /\ udrData' = udrData)]_vars

\* C8 witness: a non-leader's call for an id without instance was refused
\* for leadership while another instance exists.
C8_Witness ==
    /\ last.handler = "set_udr_information"
    /\ ~isLeader
    /\ last.rel \notin udrRels
    /\ udrRels # {}
    /\ last.raised = "RelationDataError"

\* C9: a relation-changed event delivered to the Observer emits one
\* udr_available notification if and only if the remote application is
\* present and all four udr_* keys are in its partition, on every event.
C9_EmitsIffAllFourKeysPresent ==
    reqLast.handler = "_on_relation_changed" =>
        /\ reqLast.emits \in {0, 1}
        /\ reqLast.emits = 1 <=> (reqApp /\ UdrKeys \subseteq DOMAIN reqData)
        /\ ~reqApp => reqLast.emits = 0

\* C9 witness: the event was delivered twice in a row on an unchanged
\* complete record and emitted again.
C9_Witness ==
    /\ reqLast.handler = "_on_relation_changed"
    /\ reqLast.again
    /\ reqLast.emits = 1
    /\ emitted >= 2

\* C10: every udr_available notification carries four non-empty fields,
\* whatever the peer partition holds.
C10_PayloadFieldsNonEmpty ==
    reqLast.emits = 1 => \A k \in UdrKeys : reqLast.payload[k] # ""

\* C10 witness: a notification was emitted for a partition whose keys hold
\* different values.
C10_Witness ==
    /\ reqLast.handler = "_on_relation_changed"
    /\ reqLast.emits = 1
    /\ reqLast.payload["udr_fqdn"] = "b"
    /\ reqLast.payload["udr_port"] = "a"
    /\ reqData["udr_ipv4_address"] = "a"

\* C11: with a relation instance resolved, each availability predicate is
\* true if and only if its key is present in the peer partition, whatever
\* value is stored under it.
C11_AvailableIffKeyPresent ==
    (query.read /\ reqRel) =>
        \A k \in UdrKeys :
            /\ query.available[k].raised = "none"
            /\ query.available[k].result <=> (reqApp /\ k \in DOMAIN reqData)

\* C11 witness: the predicates were read on a partition that holds the port
\* and not the fqdn: the first reports available, the second unavailable.
C11_Witness ==
    /\ query.read /\ reqRel /\ reqApp
    /\ "udr_fqdn" \notin DOMAIN reqData
    /\ ~query.available["udr_fqdn"].result
    /\ "udr_port" \in DOMAIN reqData
    /\ query.available["udr_port"].result

\* C12 (as claimed): with no relation instance, or an instance without remote
\* application, every accessor returns absent and every availability
\* predicate returns false, none raising an error.
C12_NoRelationReadsAbsent ==
    (query.read /\ (~reqRel \/ ~reqApp)) =>
        \A k \in UdrKeys :
            /\ query.value[k] = Absent
            /\ query.available[k] = [raised |-> "none", result |-> FALSE]

\* C13: an NRF relation-changed pass that directly follows an NRF
\* relation-changed pass (nothing changed in between) leaves the status the
\* first one left and writes the artifact as many times as the first did.
C13_RepeatedNrfChangedIsIdempotent ==
    [][(/\ last.handler = "_on_config_changed"
        /\ last.kind = "fiveg_nrf_relation_changed"
        /\ last'.handler = "_on_config_changed"
        /\ last'.kind = "fiveg_nrf_relation_changed")
       => (/\ status' = status
           /\ Pushes(last'.effects) = Pushes(last.effects)
           /\ last'.deferred = last.deferred)]_vars

\* C13 witness: the second of two NRF relation-changed passes in a row wrote
\* the artifact once and the status is Active.
C13_Witness ==
    /\ last.handler = "_on_config_changed"
    /\ last.kind = "fiveg_nrf_relation_changed"
    /\ last.again
    /\ Pushes(last.effects) = 1
    /\ status = ActiveStatus

\* C14: a handler defers its event in exactly two situations: the main
\* reconciliation handler with the container unreachable, and the join handler
\* on the leader with the service not running.  A pass stopped by a missing
\* relation, missing database data or a missing NRF address does not defer,
\* and neither does a join handled by a non-leader.
C14_DeferredInExactlyTwoSituations ==
    last.handler \in {"_on_config_changed", "_on_fiveg_udr_relation_joined"}
    => (last.deferred
        <=> \/ (last.handler = "_on_config_changed" /\ ~canConnect)
            \/ /\ last.handler = "_on_fiveg_udr_relation_joined"
               /\ isLeader
               /\ ~(canConnect /\ svc = "active"))

\* C14 witness: a pass stopped by missing database data, with the container
\* reachable, left nothing to redeliver.
C14_Witness ==
    /\ last.handler = "_on_config_changed"
    /\ status = WaitingStatus(MsgDbData)
    /\ canConnect
    /\ ~last.deferred
    /\ deferred = {}

\* C15: when the workload container becomes reachable, the step that makes
\* it so runs a reconciliation pass (the status is recomputed from the first
\* precondition), as a configuration change, an NRF relation change and a
\* database-created event do.
C15_RuntimeReadyRunsReconciliation ==
    [][(~canConnect /\ canConnect')
       => last'.handler = "_on_config_changed"]_vars

\* C16: a reconciliation pass redelivered after a deferral, run with the
\* container reachable and every other precondition satisfied, ends in Active
\* and leaves no reconciliation event to redeliver (so a unit deferred for an
\* unreachable container reaches Active once the container stays reachable).
C16_RedeliveredPassReachesActive ==
    (/\ last.handler = "_on_config_changed"
     /\ last.kind = "deferred"
     /\ AllPreconditions)
    => (status = ActiveStatus /\ ConfigNotice \notin deferred)

\* C17: every handler pass of the charm ends without an exception, except
\* that a publish to a relation id with no relation instance fails
\* (RuntimeError or the platform's ModelError); a pass stopped by an unmet precondition sets a Waiting or
\* Blocked status and raises nothing.
C17_OnlyMissingRelationRaises ==
    last.handler \in {"_on_config_changed", "_on_fiveg_udr_relation_joined"}
    => /\ \/ last.raised = "none"
          \/ (last.raised \in {"RuntimeError", "ModelError"}
              /\ last.rel \notin udrRels)
       /\ (last.handler = "_on_config_changed" /\ ~AllPreconditions)
          => (last.raised = "none" /\ status.name \in {"waiting", "blocked"})

\* C18: after a reconciliation pass that found every precondition met, the
\* plan holds exactly one service, udr, with override replace, startup enabled
\* and the command that names /openair-udr/etc/udr.conf, and the service runs;
\* when the pass follows another such pass, the plan is the one it found.
C18_PlanAfterSuccessfulPass ==
    [][(last'.handler = "_on_config_changed" /\ AllPreconditions')
       => (/\ DOMAIN plan' = {"udr"}
           /\ plan'.udr.override = "replace"
           /\ plan'.udr.startup = "enabled"
           /\ plan'.udr.command =
                "/bin/bash /openair-udr/bin/entrypoint.sh /openair-udr/bin/oai_udr -c /openair-udr/etc/udr.conf -o"
           /\ svc' = "active"
           /\ (last.handler = "_on_config_changed" /\ Pushes(last.effects) = 1)
              => plan' = plan)]_vars

\* C18 witness: a configuration-changed pass repeated right after another one
\* ended Active with the udr service in the plan and running.
C18_Witness ==
    /\ last.handler = "_on_config_changed"
    /\ last.kind = "config_changed"
    /\ last.again
    /\ status = ActiveStatus
    /\ DOMAIN plan = {"udr"}
    /\ svc = "active"

\* C20: a reconciliation pass that finds one of the five preconditions unmet
\* ends in Waiting or Blocked and changes nothing else: the config file, the
\* plan, the service and the fiveg-udr relation data are as the pass found
\* them.
C20_GatingFailureHasNoSideEffect ==
    [][(last'.handler = "_on_config_changed" /\ ~AllPreconditions')
       => (/\ status'.name \in {"waiting", "blocked"}
           /\ configFile' = configFile
           /\ plan' = plan
           /\ svc' = svc
           /\ udrData' = udrData)]_vars

\* C20 witness: a pass stopped by the missing NRF relation on a unit that an
\* earlier pass had configured and started.
C20_Witness ==
    /\ last.handler = "_on_config_changed"
    /\ status = BlockedStatus(MsgNrfRelation)
    /\ configFile
    /\ svc = "active"
    /\ DOMAIN plan = {"udr"}

\* The longest prefix of the text s that holds none of the characters stops.
PrefixBefore(s, stops) ==
    LET n == CHOOSE n \in 0..Len(s) :
                 /\ \A i \in 1..n : s[i] \notin stops
                 /\ n = Len(s) \/ s[n + 1] \in stops
    IN SubSeq(s, 1, n)

\* C19: the database server in the rendered artifact is the text of the first
\* entry of the comma-separated endpoints before its first ':', and two
\* endpoints values with the same first entry give the same artifact.
C19_ServerIsFirstEndpointHost ==
    /\ \A run \in artifact.pushed :
          artifact[run].MYSQL_SERVER
            = <<"\"">>
              \o PrefixBefore(PrefixBefore(endpoints[run], {","}), {":"})
              \o <<"\"">>
    /\ (/\ artifact.pushed = {"a", "b"}
        /\ PrefixBefore(endpoints.a, {","}) = PrefixBefore(endpoints.b, {","}))
       => artifact.a = artifact.b

\* C19 witness: two different endpoints values whose common first entry has a
\* port were rendered.
C19_Witness ==
    /\ artifact.pushed = {"a", "b"}
    /\ configFile
    /\ status = ActiveStatus
    /\ endpoints.a # endpoints.b
    /\ PrefixBefore(endpoints.a, {","}) = <<"h", ":", "h">>
    /\ PrefixBefore(endpoints.b, {","}) = <<"h", ":", "h">>
    /\ artifact.a.MYSQL_SERVER = <<"\"", "h", "\"">>

\* C21: a reconciliation pass that got past the checks writes the artifact,
\* adds the layer, replans, restarts the service, then (on the leader only)
\* publishes, then sets the status, in this order.  So a step that turns the
\* status into Active is a pass that wrote the artifact and restarted the
\* service, and a pass whose publish step raised leaves the status as it was.
C21_EffectsInOrderStatusLast ==
    [][/\ (last'.handler = "_on_config_changed" /\ AllPreconditions')
          => LET eff == last'.effects
                 done == <<"push", "add_layer", "replan", "restart">>
                         \o (IF isLeader' THEN <<"publish_all">> ELSE <<>>)
             IN /\ \/ (eff = done \o <<"status">> /\ last'.raised = "none"
                       /\ status' = ActiveStatus)
                   \/ (eff = done /\ last'.raised # "none" /\ isLeader'
                       /\ status' = status)
                /\ configFile' /\ svc' = "active"
       /\ (status' = ActiveStatus /\ status # ActiveStatus)
          => (/\ last'.handler = "_on_config_changed"
              /\ SubSeq(last'.effects, 1, 4)
                    = <<"push", "add_layer", "replan", "restart">>
              /\ last'.effects[Len(last'.effects)] = "status"
              /\ configFile' /\ svc' = "active")]_vars

\* C21 witness: a leader's pass wrote the artifact and restarted the service,
\* its publish step raised, and the status is not Active.
C21_Witness ==
    /\ last.handler = "_on_config_changed"
    /\ last.effects = <<"push", "add_layer", "replan", "restart", "publish_all">>
    /\ last.raised # "none"
    /\ configFile /\ svc = "active"
    /\ status # ActiveStatus

\* C22: a handler of the charm that calls set_udr_information does so for the
\* id of a fiveg-udr relation instance that exists, also when the join event
\* it handles was deferred and is redelivered.
C22_PublishOnlyToExistingRelation ==
    (/\ last.handler \in {"_on_config_changed", "_on_fiveg_udr_relation_joined"}
     /\ \E i \in DOMAIN last.effects : last.effects[i] = "publish")
    => last.rel \in udrRels

\* C23: the local application partition of every fiveg-udr relation instance
\* holds none of the four udr_* keys or all four, and then with the values
\* 127.0.0.1, <app name>.<model name>.svc.cluster.local, 80 and v1.
C23_PartitionHoldsNoneOrWholeRecord ==
    \A r \in RelIds :
        LET bag == udrData[r]
            keys == {"udr_ipv4_address", "udr_fqdn", "udr_port",
                     "udr_api_version"}
        IN \/ keys \cap DOMAIN bag = {}
           \/ /\ keys \subseteq DOMAIN bag
              /\ bag["udr_ipv4_address"] = "127.0.0.1"
              /\ bag["udr_fqdn"] = "oai-5g-udr.whatever.svc.cluster.local"
              /\ bag["udr_port"] = "80"
              /\ bag["udr_api_version"] = "v1"

\* C23 witness: of two relation instances, one holds the four keys after a
\* join was handled and the other holds none.
C23_Witness ==
    /\ udrRels = {1, 2}
    /\ DOMAIN udrData[1] = {"udr_ipv4_address", "udr_fqdn", "udr_port",
                            "udr_api_version"}
    /\ DOMAIN udrData[2] = {}
    /\ last.handler = "_on_fiveg_udr_relation_joined"
    /\ last.raised = "none"

\* C24: when a relation-changed event of instance r is delivered to the
\* Observer after set_udr_information published a record with four non-empty
\* fields into r, udr_available is emitted with the four fields of that
\* record, and the four accessors, read next, return the same values.
C24_PublishedRecordRoundTrips ==
    (/\ last.handler = "relation_changed_delivered"
     /\ UdrKeys \subseteq DOMAIN udrData[last.rel]
     /\ \A k \in UdrKeys : udrData[last.rel][k] # "")
    => /\ reqLast.handler = "_on_relation_changed"
       /\ reqLast.emits = 1
       /\ DOMAIN reqLast.payload = UdrKeys
       /\ \A k \in UdrKeys : reqLast.payload[k] = udrData[last.rel][k]
       /\ query.read
          => \A k \in UdrKeys :
                /\ query.value[k].raised = "none"
                /\ query.value[k].present
                /\ query.value[k].value = udrData[last.rel][k]
                /\ query.available[k].result

\* C24 witness: the charm's own record, published into instance 2, was
\* delivered, notified and read back through the accessors.
C24_Witness ==
    /\ last.handler = "relation_changed_delivered"
    /\ last.rel = 2
    /\ udrData[2] = OwnRecord
    /\ reqLast.emits = 1
    /\ reqLast.payload.udr_port = "80"
    /\ query.read
    /\ query.value["udr_fqdn"].value = UdrFqdn

====
